---- MODULE Spec2Model ----
(***************************************************************************)
(* Model of the storefront repository: the "playground" app (one URLconf   *)
(* entry and the view say_hello) and the "tags" app (models Tag and        *)
(* TaggedItem with a generic foreign key).                                 *)
(*                                                                         *)
(* The database is the state: the rows of Tag, TaggedItem, ContentType and *)
(* of the tagged tables.  The operations are the ones the model            *)
(* declarations give every table (create, update, delete) with the         *)
(* constraints the field declarations carry (ForeignKey, on_delete=CASCADE,*)
(* PositiveIntegerField), and the handling of one HTTP request.            *)
(***************************************************************************)
EXTENDS Integers, Sequences, FiniteSets, TLC

(* ---------------------------- bounds ----------------------------------- *)
\* Largest primary key the Tag table hands out in a run.
MaxTagId == 2
\* Largest primary key the TaggedItem table hands out in a run.
MaxItemId == 2

\* Python's None where a text is expected: a query parameter that is absent.
NULL == "None"
\* Python's None where a key is expected.  Primary keys start at 1, so 0 is the
\* key of no row.
NoKey == 0

TagIds == 1..MaxTagId
ItemIds == 1..MaxItemId
\* Primary keys of the rows of a tagged table.
RowIds == {1}
\* Primary keys of the ContentType rows: one per tagged model.
ContentTypeIds == {1, 2}
\* Values a caller may hand to object_id: a negative one, zero, and the key of
\* a row, which may or may not exist.
ObjectIds == {-1, 0, 1}
\* Values a caller may hand to Tag.label.
Labels == {"sale"}

VARIABLES
    tags,          \* Tag table: primary key -> [label]
    tagSeq,        \* last primary key the Tag table assigned
    items,         \* TaggedItem table: primary key -> [tag, content_type, object_id]
    itemSeq,       \* last primary key the TaggedItem table assigned
    contentTypes,  \* ContentType table: the primary keys present
    rows,          \* rows of the tagged tables: <<content type, primary key>>
    result,        \* what the last database operation returned or raised
    served         \* the last request handled, with the view it reached and its response

db == <<tags, tagSeq, items, itemSeq, contentTypes, rows>>
vars == <<tags, tagSeq, items, itemSeq, contentTypes, rows, result, served>>

(* ------------------------- playground/urls.py -------------------------- *)
\* A path is the sequence of its characters.
Hello == <<"h", "e", "l", "l", "o">>

\* path("hello/", views.say_hello): the one entry of the URLconf.
urlpatterns == << [route |-> Hello \o <<"/">>, view |-> "say_hello"] >>

\* The paths of the requests the model sends.
RequestPaths ==
    { <<"/">> \o Hello \o <<"/">>,
      <<"/">> \o Hello,
      <<"/">> \o Hello \o <<"/", "x">>,
      <<"/">>,
      <<"/", "x">> }

Methods == {"GET", "POST"}
\* The value of the query parameter "name", None when the request has none.
QueryNames == {NULL, "Eve"}

Requests == [path : RequestPaths, method : Methods, name : QueryNames]

\* The resolver matches the request's path without its leading slash.
PathInfo(p) == IF Len(p) > 0 /\ Head(p) = "/" THEN Tail(p) ELSE p

\* A route that matches any path it begins, as a pattern without its end
\* anchor would.
RouteMatches_Prefix(route, p) ==
    Len(p) >= Len(route) /\ SubSeq(p, 1, Len(route)) = route

\* A route without converters matches the whole remaining path, nothing less
\* and nothing more.
RouteMatches(route, p) == p = route

\* The entries are tried in order; the first that matches gives the view.
RECURSIVE resolve(_, _)
resolve(patterns, p) ==
    IF patterns = << >> THEN "Http404"
    ELSE IF RouteMatches(Head(patterns).route, p) THEN Head(patterns).view
    ELSE resolve(Tail(patterns), p)

(* ------------------------- playground/views.py ------------------------- *)
\* A template is a sequence of nodes: literal text, or a variable of the
\* context.
Text(s) == [kind |-> "text", value |-> s]
Var(n) == [kind |-> "var", value |-> n]

\* hello.html interpolates the context's "name".
Templates == [ hello |-> << Text("<h1>Hello "), Var("name"), Text("</h1>") >> ]

\* Interpolated values are HTML-escaped.
Escape(v) == IF v = "<b>" THEN "&lt;b&gt;" ELSE v

\* A variable the context lacks renders as the empty string.
RenderNode(node, context) ==
    IF node.kind = "text" THEN node.value
    ELSE IF node.value \in DOMAIN context THEN Escape(context[node.value])
    ELSE ""

render_to_string(template, context) ==
    [k \in 1..Len(template) |-> RenderNode(template[k], context)]

\* render(request, template_name, context): a 200 response with the rendering.
render(request, template, context) ==
    [status |-> 200, body |-> render_to_string(template, context)]

\* The view without a context, as in the line commented out above the return.
say_hello_NoContext(request) == render(request, Templates.hello, << >>)

\* The view taking the name from the request's query when it has one.
say_hello_EchoName(request) ==
    render(request, Templates.hello,
           [name |-> IF request.name = NULL THEN "Mostafa" ELSE request.name])

say_hello(request) == render(request, Templates.hello, [name |-> "Mostafa"])

\* What the framework answers when no entry of the URLconf matches.
NotFound == [status |-> 404, body |-> <<"Not Found">>]

Dispatch(view, request) ==
    IF view = "say_hello" THEN say_hello(request) ELSE NotFound

\* Before the first request: no view was reached and nothing was answered.
NoResponse == [status |-> 0, body |-> << >>]
NoRequest == [path |-> << >>, method |-> NULL, name |-> NULL]

HandleRequest(req) ==
    LET view == resolve(urlpatterns, PathInfo(req.path)) IN
    /\ served' = [request |-> req, view |-> view, response |-> Dispatch(view, req)]
    /\ UNCHANGED <<db, result>>

(* ----------------------------- tags/models.py -------------------------- *)
Restrict(f, S) == [k \in S |-> f[k]]

\* What save() and create() leave behind: the row was written.
Saved == [outcome |-> "saved", model |-> "", rows |-> 0, cascaded |-> 0]
\* What a write the database refuses raises.
IntegrityError == [outcome |-> "IntegrityError", model |-> "", rows |-> 0, cascaded |-> 0]
\* What delete() returns: the model of the row deleted, and how many rows of
\* the models that depend on it went with it.
Deleted(model, cascaded) ==
    [outcome |-> "deleted", model |-> model, rows |-> 1, cascaded |-> cascaded]

\* Tag.objects.create(label=...): the key is the next of the sequence.
CreateTag(label) ==
    /\ tagSeq < MaxTagId
    /\ tagSeq' = tagSeq + 1
    /\ tags' = (tagSeq + 1 :> [label |-> label]) @@ tags
    /\ result' = Saved
    /\ UNCHANGED <<items, itemSeq, contentTypes, rows, served>>

\* tag.label = ...; tag.save()
UpdateTag(t, label) ==
    /\ t \in DOMAIN tags
    /\ tags' = [tags EXCEPT ![t] = [label |-> label]]
    /\ result' = Saved
    /\ UNCHANGED <<tagSeq, items, itemSeq, contentTypes, rows, served>>

\* on_delete=DO_NOTHING: nothing goes with the Tag.
TagDependents_None(t) == {}

\* A cascade that does not filter on the Tag deleted.
TagDependents_All(t) == DOMAIN items

\* The TaggedItems that go with a Tag: on_delete=CASCADE on TaggedItem.tag.
TagDependents(t) == {i \in DOMAIN items : items[i].tag = t}

\* tag.delete()
DeleteTag(t) ==
    /\ t \in DOMAIN tags
    /\ tags' = Restrict(tags, DOMAIN tags \ {t})
    /\ items' = Restrict(items, DOMAIN items \ TagDependents(t))
    /\ result' = Deleted("Tag", Cardinality(TagDependents(t)))
    /\ UNCHANGED <<tagSeq, itemSeq, contentTypes, rows, served>>

\* tag = ForeignKey(Tag): not null, and the key of a row of Tag.
TagFieldOk(tag) == tag # NoKey /\ tag \in DOMAIN tags

\* content_type = ForeignKey(ContentType): not null, the key of a row.
ContentTypeFieldOk(ct) == ct # NoKey /\ ct \in contentTypes

\* object_id = IntegerField(): any integer.
ObjectIdFieldOk_Signed(oid) == TRUE

\* object_id = PositiveIntegerField(): zero or more.
ObjectIdFieldOk(oid) == oid >= 0

\* A check that also wants the pair to name a row of the tagged table.
TaggedItemOk_RowChecked(tag, ct, oid) ==
    /\ TagFieldOk(tag) /\ ContentTypeFieldOk(ct) /\ ObjectIdFieldOk(oid)
    /\ <<ct, oid>> \in rows

\* A check with unique_together = (tag, content_type, object_id).
TaggedItemOk_Unique(tag, ct, oid) ==
    /\ TagFieldOk(tag) /\ ContentTypeFieldOk(ct) /\ ObjectIdFieldOk(oid)
    /\ \A i \in DOMAIN items :
          items[i] # [tag |-> tag, content_type |-> ct, object_id |-> oid]

\* What the database checks of a TaggedItem row that is written.  The pair
\* (content_type, object_id) is not checked against the tagged table, and no
\* combination of fields is declared unique.
TaggedItemOk(tag, ct, oid) ==
    TagFieldOk(tag) /\ ContentTypeFieldOk(ct) /\ ObjectIdFieldOk(oid)

\* TaggedItem.objects.create(tag=..., content_type=..., object_id=...)
CreateTaggedItem(tag, ct, oid) ==
    /\ itemSeq < MaxItemId
    /\ IF TaggedItemOk(tag, ct, oid)
       THEN /\ itemSeq' = itemSeq + 1
            /\ items' = (itemSeq + 1 :>
                            [tag |-> tag, content_type |-> ct, object_id |-> oid])
                        @@ items
            /\ result' = Saved
       ELSE /\ result' = IntegrityError
            /\ UNCHANGED <<items, itemSeq>>
    /\ UNCHANGED <<tags, tagSeq, contentTypes, rows, served>>

\* item.tag = ...; item.content_type = ...; item.object_id = ...; item.save()
UpdateTaggedItem(i, tag, ct, oid) ==
    /\ i \in DOMAIN items
    /\ IF TaggedItemOk(tag, ct, oid)
       THEN /\ items' = [items EXCEPT ![i] =
                            [tag |-> tag, content_type |-> ct, object_id |-> oid]]
            /\ result' = Saved
       ELSE /\ result' = IntegrityError
            /\ UNCHANGED items
    /\ UNCHANGED <<tags, tagSeq, itemSeq, contentTypes, rows, served>>

\* item.delete(): TaggedItem is referenced by nothing, so nothing goes with it.
DeleteTaggedItem(i) ==
    /\ i \in DOMAIN items
    /\ items' = Restrict(items, DOMAIN items \ {i})
    /\ result' = Deleted("TaggedItem", 0)
    /\ UNCHANGED <<tags, tagSeq, itemSeq, contentTypes, rows, served>>

\* on_delete=DO_NOTHING: nothing goes with the ContentType.
ContentTypeDependents_None(c) == {}

\* The TaggedItems that go with a ContentType: on_delete=CASCADE on
\* TaggedItem.content_type.
ContentTypeDependents(c) == {i \in DOMAIN items : items[i].content_type = c}

\* A ContentType row is added for a model that is installed.
CreateContentType(c) ==
    /\ c \notin contentTypes
    /\ contentTypes' = contentTypes \cup {c}
    /\ result' = Saved
    /\ UNCHANGED <<tags, tagSeq, items, itemSeq, rows, served>>

\* content_type.delete()
DeleteContentType(c) ==
    /\ c \in contentTypes
    /\ contentTypes' = contentTypes \ {c}
    /\ items' = Restrict(items, DOMAIN items \ ContentTypeDependents(c))
    /\ result' = Deleted("ContentType", Cardinality(ContentTypeDependents(c)))
    /\ UNCHANGED <<tags, tagSeq, itemSeq, rows, served>>

\* A lookup by object_id alone, in whichever table holds that key.
content_object_AnyTable(item) ==
    IF \E r \in rows : r[2] = item.object_id
    THEN CHOOSE r \in rows : r[2] = item.object_id
    ELSE << >>

\* content_object = GenericForeignKey(): the row the pair
\* (content_type, object_id) names, the empty tuple (None) when the table
\* holds no such row.
content_object(item) ==
    IF <<item.content_type, item.object_id>> \in rows
    THEN <<item.content_type, item.object_id>>
    ELSE << >>

(* --------------------------- the tagged tables ------------------------- *)
\* A row of a tagged table (a Product of the store app) is saved.
CreateRow(c, r) ==
    /\ <<c, r>> \notin rows
    /\ rows' = rows \cup {<<c, r>>}
    /\ result' = Saved
    /\ UNCHANGED <<tags, tagSeq, items, itemSeq, contentTypes, served>>

\* A row of a tagged table is deleted; nothing ties the TaggedItems that name
\* it to the deletion.
DeleteRow(c, r) ==
    /\ <<c, r>> \in rows
    /\ rows' = rows \ {<<c, r>>}
    /\ result' = Deleted("Row", 0)
    /\ UNCHANGED <<tags, tagSeq, items, itemSeq, contentTypes, served>>

(* ---------------------------- specification ---------------------------- *)
Init ==
    /\ tags = << >>
    /\ tagSeq = 0
    /\ items = << >>
    /\ itemSeq = 0
    /\ contentTypes = ContentTypeIds
    /\ rows = {}
    /\ result = Saved
    /\ served = [request |-> NoRequest, view |-> "none", response |-> NoResponse]


Next ==
    \/ \E req \in Requests : HandleRequest(req)
    \/ \E l \in Labels : CreateTag(l)
    \/ \E t \in TagIds, l \in Labels : UpdateTag(t, l)
    \/ \E t \in TagIds : DeleteTag(t)
    \/ \E t \in TagIds \cup {NoKey}, c \in ContentTypeIds \cup {NoKey}, o \in ObjectIds :
          CreateTaggedItem(t, c, o)
    \/ \E i \in ItemIds, t \in TagIds \cup {NoKey}, c \in ContentTypeIds \cup {NoKey},
          o \in ObjectIds : UpdateTaggedItem(i, t, c, o)
    \/ \E i \in ItemIds : DeleteTaggedItem(i)
    \/ \E c \in ContentTypeIds : CreateContentType(c)
    \/ \E c \in ContentTypeIds : DeleteContentType(c)
    \/ \E c \in ContentTypeIds, r \in RowIds : CreateRow(c, r)
    \/ \E c \in ContentTypeIds, r \in RowIds : DeleteRow(c, r)

Spec == Init /\ [][Next]_vars

\* The tags app alone: no request is handled.
NextTags ==
    \/ \E l \in Labels : CreateTag(l)
    \/ \E t \in TagIds, l \in Labels : UpdateTag(t, l)
    \/ \E t \in TagIds : DeleteTag(t)
    \/ \E t \in TagIds \cup {NoKey}, c \in ContentTypeIds \cup {NoKey}, o \in ObjectIds :
          CreateTaggedItem(t, c, o)
    \/ \E i \in ItemIds, t \in TagIds \cup {NoKey}, c \in ContentTypeIds \cup {NoKey},
          o \in ObjectIds : UpdateTaggedItem(i, t, c, o)
    \/ \E i \in ItemIds : DeleteTaggedItem(i)
    \/ \E c \in ContentTypeIds : CreateContentType(c)
    \/ \E c \in ContentTypeIds : DeleteContentType(c)
    \/ \E c \in ContentTypeIds, r \in RowIds : CreateRow(c, r)
    \/ \E c \in ContentTypeIds, r \in RowIds : DeleteRow(c, r)

SpecTags == Init /\ [][NextTags]_vars

(* ------------------------------ properties ----------------------------- *)
HelloPath == <<"/">> \o Hello \o <<"/">>

\* C1: a request to /hello/ reaches say_hello and is answered with status 200
\* and the rendering of hello.html with name = "Mostafa", so the body holds
\* the text "Mostafa".
C1_HelloRendersMostafa ==
    served.request.path = HelloPath =>
        /\ served.view = "say_hello"
        /\ served.response.status = 200
        /\ served.response.body = << "<h1>Hello ", "Mostafa", "</h1>" >>
        /\ \E k \in 1..Len(served.response.body) : served.response.body[k] = "Mostafa"

C1_Witness ==
    /\ served.request.path = HelloPath
    /\ served.response.status = 200

\* C2: after any sequence of creations and deletions of Tags and TaggedItems,
\* with the cascade of a Tag's deletion, every TaggedItem's tag is the key of a
\* Tag that exists.
C2_TagReferencesExist ==
    \A i \in DOMAIN items : items[i].tag \in DOMAIN tags

\* A Tag was just deleted with at least one TaggedItem, and a TaggedItem of
\* another Tag is left.
C2_Witness ==
    /\ result.outcome = "deleted" /\ result.model = "Tag" /\ result.cascaded >= 1
    /\ DOMAIN items # {}

\* The pair (content_type, object_id) of a TaggedItem names a row that exists.
Resolves(item) == <<item.content_type, item.object_id>> \in rows

C4_DanglingNotRejected ==
    [][ /\ \A t \in DOMAIN tags, c \in contentTypes, o \in ObjectIds :
             ( /\ o >= 0
               /\ <<c, o>> \notin rows
               /\ CreateTaggedItem(t, c, o) )
             => /\ result' = Saved
                /\ itemSeq' = itemSeq + 1
                /\ items'[itemSeq'] = [tag |-> t, content_type |-> c, object_id |-> o]
                /\ <<c, o>> \notin rows'
        /\ \A r \in rows : r \notin rows' => items' = items
      ]_vars

\* The row <<1, 1>> was just deleted while a TaggedItem names it, and another
\* TaggedItem was written with object_id 0, the key of no row.
C4_Witness ==
    /\ result.outcome = "deleted" /\ result.model = "Row"
    /\ rows = {<<2, 1>>}
    /\ \E i, j \in DOMAIN items :
          /\ items[i].content_type = 1 /\ items[i].object_id = 1
          /\ items[j].object_id = 0

\* C5: every request that reaches say_hello gets the response any other
\* request would get from it, whatever its method and query, and a step that
\* handles a request changes no row of the database.
C5_SayHelloIgnoresRequest ==
    /\ [](served.view = "say_hello" =>
             \A r \in Requests : served.response = say_hello(r))
    /\ [][served' # served => UNCHANGED db]_vars

\* A POST with a query parameter reached say_hello while the tables hold rows.
C5_Witness ==
    /\ served.view = "say_hello"
    /\ served.request.method = "POST"
    /\ served.request.name = "Eve"
    /\ DOMAIN tags # {} /\ DOMAIN items # {}

\* C6: every TaggedItem has one Tag, never none, and a TaggedItem equal in
\* tag, content_type and object_id to one that exists is written all the same.
C6_ManyToOneNoUniqueness ==
    /\ [](\A i \in DOMAIN items : items[i].tag # NoKey /\ items[i].tag \in TagIds)
    /\ [][ \A i \in DOMAIN items :
             CreateTaggedItem(items[i].tag, items[i].content_type, items[i].object_id)
             => /\ result' = Saved
                /\ DOMAIN items' = DOMAIN items \cup {itemSeq + 1}
                /\ items'[itemSeq + 1] = items[i]
         ]_vars

\* Two TaggedItems with the same tag, content_type and object_id.
C6_Witness ==
    \E i, j \in DOMAIN items : i # j /\ items[i] = items[j]

\* C7: the URLconf has one entry; say_hello is reached exactly by the requests
\* whose path past the leading slash is "hello/", and every other request gets
\* the framework's not-found response.
C7_OnlyHelloReachesSayHello ==
    /\ Len(urlpatterns) = 1
    /\ served.view # "none" =>
          /\ served.view = "say_hello" <=>
                PathInfo(served.request.path) = Hello \o <<"/">>
          /\ served.view # "say_hello" =>
                served.view = "Http404" /\ served.response = NotFound

\* The request /hello/x was answered with not-found.
C7_Witness ==
    /\ served.request.path = <<"/">> \o Hello \o <<"/", "x">>
    /\ served.view = "Http404"

\* C8: with the cascade of a ContentType's deletion, every TaggedItem's
\* content_type is the key of a ContentType that exists.
C8_ContentTypeReferencesExist ==
    \A i \in DOMAIN items : items[i].content_type \in contentTypes

\* A ContentType was just deleted with at least one TaggedItem, and a
\* TaggedItem of another ContentType is left.
C8_Witness ==
    /\ result.outcome = "deleted" /\ result.model = "ContentType"
    /\ result.cascaded >= 1
    /\ DOMAIN items # {}

\* The step is a delete() of a row of the model.
StepDeletes(model) ==
    served' = served /\ result'.outcome = "deleted" /\ result'.model = model

\* C9: the deletion of a Tag t removes t and the TaggedItems whose tag is t and
\* nothing else: the other Tags, the TaggedItems of other Tags and the tagged
\* rows stay as they were; the deletion of a TaggedItem removes that row alone
\* and leaves every Tag as it was.
C9_DeleteFrame ==
    [][ /\ StepDeletes("Tag") =>
             \E t \in DOMAIN tags :
                /\ tags' = Restrict(tags, DOMAIN tags \ {t})
                /\ items' = Restrict(items, {i \in DOMAIN items : items[i].tag # t})
                /\ rows' = rows
                /\ contentTypes' = contentTypes
        /\ StepDeletes("TaggedItem") =>
             \E i \in DOMAIN items :
                /\ items' = Restrict(items, DOMAIN items \ {i})
                /\ tags' = tags
                /\ rows' = rows
                /\ contentTypes' = contentTypes
      ]_vars

\* A Tag was just deleted with a TaggedItem of its own, while another Tag, a
\* TaggedItem of that other Tag and a tagged row are there.
C9_Witness ==
    /\ result.outcome = "deleted" /\ result.model = "Tag" /\ result.cascaded >= 1
    /\ \E i \in DOMAIN items : items[i].tag \in DOMAIN tags
    /\ rows # {}

\* C10: the object_id of every TaggedItem is zero or more, and every step is
\* either a write that is refused and changes no row, or not a create or an
\* update with a negative object_id.
C10_ObjectIdNonNegative ==
    /\ [](\A i \in DOMAIN items : items[i].object_id \in Nat)
    /\ [][ \/ result' = IntegrityError /\ UNCHANGED db
           \/ \A t \in TagIds \cup {NoKey}, c \in ContentTypeIds \cup {NoKey},
                 o \in {n \in ObjectIds : n < 0} :
                 /\ ~CreateTaggedItem(t, c, o)
                 /\ \A i \in DOMAIN items : ~UpdateTaggedItem(i, t, c, o)
         ]_vars

\* A write was just refused while a TaggedItem with object_id 0 is stored and
\* every Tag and ContentType a caller can name exists.
C10_Witness ==
    /\ result = IntegrityError
    /\ \E i \in DOMAIN items : items[i].object_id = 0
    /\ DOMAIN tags = TagIds
    /\ contentTypes = ContentTypeIds

====
